---------------------------- MODULE Spec2Model ----------------------------
(***************************************************************************)
(* Model of the template rules backend (src/src/backend_main.py).          *)
(*                                                                         *)
(* Text is a sequence of symbols.  A symbol is one character of the input  *)
(* ("/", "*", "A", ".", ...) or one literal of the program that no input   *)
(* can spell ("generate", "rule_", ".js", "[MISSING_RULE:", ...), so two   *)
(* texts are equal exactly when their symbol sequences are equal.          *)
(***************************************************************************)
EXTENDS Integers, Sequences, FiniteSets, TLC

VARIABLES
    htmlFile,   \* uploads/sample.html      [exists, content]
    xmlFile,    \* uploads/sample-thml.xml  [exists, content]
    rules,      \* rules/ directory: file name -> artifact
    client,     \* TRUE when the text-generation client is configured
    req,        \* the request being answered (history)
    resp,       \* the answer to that request
    log,        \* substitutions made by the last render (history)
    ups,        \* SpecConc: the upload requests in flight
    pure        \* SpecOrder, SpecHarness: input and result of the function

vars == <<htmlFile, xmlFile, rules, client, req, resp, log, ups, pure>>

-----------------------------------------------------------------------------
(* Bounds *)

MaxPieces == 2      \* pieces per uploaded template
MaxStmts == 2       \* statements per generated body (SpecHarness)
MaxUploads == 2     \* concurrent uploads (SpecConc)

-----------------------------------------------------------------------------
(* Text helpers: Python str operations used by the handlers *)

Min(S) == CHOOSE x \in S : \A y \in S : x <= y

StartsWith(s, p) == Len(s) >= Len(p) /\ SubSeq(s, 1, Len(p)) = p

Contains(s, sub) ==
    \E i \in 1..(Len(s) - Len(sub) + 1) : SubSeq(s, i, i + Len(sub) - 1) = sub

\* str.replace(old, new): every non-overlapping occurrence, left to right;
\* the inserted text is not scanned again.
RECURSIVE Replace(_, _, _)
Replace(s, old, new) ==
    IF Len(s) < Len(old) THEN s
    ELSE IF StartsWith(s, old)
         THEN new \o Replace(SubSeq(s, Len(old) + 1, Len(s)), old, new)
         ELSE <<s[1]>> \o Replace(Tail(s), old, new)

Whitespace == {" ", "\n"}

RECURSIVE Strip(_)
Strip(s) ==
    IF s = <<>> THEN s
    ELSE IF s[1] \in Whitespace THEN Strip(Tail(s))
    ELSE IF s[Len(s)] \in Whitespace THEN Strip(SubSeq(s, 1, Len(s) - 1))
    ELSE s

-----------------------------------------------------------------------------
(* safe_tag_name, rule file names, placeholder delimiters *)

Digits == {"0", "1", "2", "3", "4", "5", "6", "7", "8", "9"}
Lower == {"a", "b", "c", "d", "e", "f", "g", "h", "i", "j", "k", "l", "m",
          "n", "o", "p", "q", "r", "s", "t", "u", "v", "w", "x", "y", "z"}
Upper == {"A", "B", "C", "D", "E", "F", "G", "H", "I", "J", "K", "L", "M",
          "N", "O", "P", "Q", "R", "S", "T", "U", "V", "W", "X", "Y", "Z"}
SafeChars == Digits \cup Lower \cup Upper \cup {"_"}

safe_tag_name(tag) ==
    [i \in 1..Len(tag) |-> IF tag[i] \in SafeChars THEN tag[i] ELSE "_"]

IsSafe(tag) == \A i \in 1..Len(tag) : tag[i] \in SafeChars

RuleFile(tag) == <<"rule_">> \o safe_tag_name(tag) \o <<".js">>

Placeholder(tag) == <<"/", "*">> \o tag \o <<"*", "/">>

MissingRule(tag) == <<"[MISSING_RULE:">> \o tag \o <<"]">>

RuleError(tag) == <<"[RULE_ERROR:">> \o tag \o <<"]">>

-----------------------------------------------------------------------------
(* utils.html_tags.extract_placeholders: the distinct names wrapped in the *)
(* delimiter, in order of first appearance                                 *)

RECURSIVE FindAll(_, _)
FindAll(s, i) ==
    IF i + 1 > Len(s) THEN <<>>
    ELSE IF s[i] = "/" /\ s[i + 1] = "*"
         THEN LET closes == {j \in (i + 3)..(Len(s) - 1) :
                                s[j] = "*" /\ s[j + 1] = "/"}
              IN  IF closes = {} THEN FindAll(s, i + 1)
                  ELSE <<SubSeq(s, i + 2, Min(closes) - 1)>>
                         \o FindAll(s, Min(closes) + 2)
         ELSE FindAll(s, i + 1)

RECURSIVE Distinct(_)
Distinct(q) ==
    IF q = <<>> THEN <<>>
    ELSE LET d == Distinct(SubSeq(q, 1, Len(q) - 1))
         IN  IF \E k \in 1..Len(d) : d[k] = q[Len(q)] THEN d
             ELSE Append(d, q[Len(q)])

extract_placeholders(html) == Distinct(FindAll(html, 1))

Range(q) == {q[k] : k \in 1..Len(q)}


-----------------------------------------------------------------------------
(* The rule artifact written by generate_rule: the generated body followed *)
(* by the runner harness, which is instantiated with tag and safe.         *)
(*                                                                         *)
(* A generated body is a sequence of statements [name, kind] and the       *)
(* behaviour of the functions it defines:                                  *)
(*   kind "func"   function name(data) {...}    (module scope)             *)
(*   kind "gfunc"  global.name = function ...   (property of global)       *)
(*   kind "value"  var name = <not a function>  (module scope)             *)
(*   beh  "return" | "throw" | "hang"                                      *)
(*   src  "const": returns arg; "field": returns data[arg] || ''           *)

Generate == <<"generate">>

fnNames(tag, safe) ==
    << Generate \o <<"_">> \o tag, Generate \o tag,
       Generate \o <<"_">> \o safe, Generate \o safe >>

\* The kind the name is bound to by the body: its last binding.
Lookup(body, name) ==
    LET hits == {k \in 1..Len(body.stmts) : body.stmts[k].name = name}
    IN  IF hits = {} THEN "undef"
        ELSE body.stmts[CHOOSE k \in hits : \A h \in hits : h <= k].kind

IsIdentifier(name) == \A k \in 1..Len(name) : name[k] \in SafeChars \cup {"generate"}

\* eval(n) inside run(): a name that is not bound raises ReferenceError and
\* a text that is no expression raises SyntaxError; both end in the catch.
EvalKind(body, n) ==
    IF ~IsIdentifier(n) THEN "throw"
    ELSE IF Lookup(body, n) = "undef" THEN "throw"
    ELSE Lookup(body, n)

\* Function-valued own properties of global, in property order: the ones
\* the runtime defines, then the ones the body added.
Builtins == << <<"setTimeout">> >>

GlobalFunctions(body) ==
    LET added == SelectSeq(body.stmts, LAMBDA st : st.kind = "gfunc")
    IN  Builtins \o [k \in 1..Len(added) |-> added[k].name]

\* for (const n of fnNames) {...}: the first candidate that is a function,
\* or the exception raised on the way.
RECURSIVE CandidateLoop(_, _, _)
CandidateLoop(body, names, i) ==
    IF i > Len(names) THEN [via |-> "none", name |-> <<>>]
    ELSE LET e == EvalKind(body, names[i])
         IN  IF e = "throw" THEN [via |-> "thrown", name |-> <<>>]
             ELSE IF e \in {"func", "gfunc"} THEN [via |-> "candidate", name |-> names[i]]
             ELSE CandidateLoop(body, names, i + 1)

\* The callable run() ends up with (lines 174-193), and how it found it:
\*   "candidate", "generate", "body" (the last function the body put on
\*   global), "builtin" (a function of the runtime), "none", or "thrown".
Resolve(tag, body) ==
    LET c == CandidateLoop(body, fnNames(tag, safe_tag_name(tag)), 1)
        keys == GlobalFunctions(body)
    IN  IF c.via # "none" THEN c
        ELSE IF Lookup(body, Generate) \in {"func", "gfunc"}
             THEN [via |-> "generate", name |-> Generate]
        ELSE IF Len(keys) > 0
             THEN IF keys[Len(keys)] = Builtins[Len(Builtins)]
                  THEN [via |-> "builtin", name |-> keys[Len(keys)]]
                  ELSE [via |-> "body", name |-> keys[Len(keys)]]
             ELSE [via |-> "none", name |-> <<>>]

Returned(body, data) ==
    IF body.src = "const" THEN body.arg
    ELSE IF body.arg \in DOMAIN data THEN data[body.arg] ELSE <<>>

\* What the node process does with the artifact: exit code and stdout.
\* builtinOk: whether calling the runtime's own function with the data
\* returns (its output is not determined by the artifact).
HarnessRun(artifact, data, builtinOk) ==
    LET r == Resolve(artifact.tag, artifact.body)
        exited(code) == [exit |-> code, hang |-> FALSE, out |-> <<>>, fn |-> r.name]
    IN  IF r.via = "thrown" THEN exited(3)
        ELSE IF r.via = "none" THEN exited(2)
        ELSE IF r.via = "builtin"
             THEN IF builtinOk
                  THEN [exit |-> 0, hang |-> FALSE, out |-> <<"?", "\n">>, fn |-> r.name]
                  ELSE exited(3)
        ELSE IF artifact.body.beh = "hang"
             THEN [exit |-> 0, hang |-> TRUE, out |-> <<>>, fn |-> r.name]
        ELSE IF artifact.body.beh = "throw" THEN exited(3)
        ELSE [exit |-> 0, hang |-> FALSE,
              out |-> Returned(artifact.body, data) \o <<"\n">>, fn |-> r.name]

\* utils.node_runner.run_js_rule: the trimmed stdout, or an exception on
\* timeout or non-zero exit.
run_js_rule(artifact, data, builtinOk) ==
    LET p == HarnessRun(artifact, data, builtinOk)
    IN  IF p.hang THEN [raised |-> TRUE, value |-> <<>>]
        ELSE IF p.exit # 0 THEN [raised |-> TRUE, value |-> <<>>]
        ELSE [raised |-> FALSE, value |-> Strip(p.out)]


-----------------------------------------------------------------------------
(* Inputs: tags, templates, data files, generated bodies *)

TagA == <<"A">>
TagDot == <<".">>
TagUnderscore == <<"_">>
TagName == <<"N", "a", "m", "e">>
TagSalary == <<"S", "a", "l", "a", "r", "y">>

EmptyMap == [t \in {} |-> <<>>]

ExampleHtml ==
    <<"<", "p", ">">> \o Placeholder(TagName) \o <<" ", "e", "a", "r", "n", "s", " ">>
        \o Placeholder(TagSalary) \o <<"<", "/", "p", ">">>

ExampleData == TagName :> <<"A", "n", "n">>

ExampleOutput ==
    <<"<", "p", ">", "A", "n", "n", " ", "e", "a", "r", "n", "s", " ">>
        \o MissingRule(TagSalary) \o <<"<", "/", "p", ">">>

Pieces == {Placeholder(TagA), Placeholder(TagUnderscore), <<"x">>}

RECURSIVE Concats(_)
Concats(n) ==
    IF n = 0 THEN {<<>>}
    ELSE Concats(n - 1) \cup {c \o p : c \in Concats(n - 1), p \in Pieces}

Templates == Concats(MaxPieces) \cup {ExampleHtml}

DataMaps ==
    { EmptyMap,
      TagA :> <<"x">>,
      (TagA :> <<"x">>) @@ (TagUnderscore :> <<"y">>),
      (TagA :> Placeholder(TagUnderscore)) @@ (TagUnderscore :> <<"y">>),
      TagUnderscore :> Placeholder(TagUnderscore),
      ExampleData }

\* The content of a data file: well-formed markup with its flat mapping, or
\* text that is not well-formed markup (an empty file is such a text).
Malformed == [wellformed |-> FALSE, map |-> EmptyMap]
XmlDocs == {[wellformed |-> TRUE, map |-> m] : m \in DataMaps} \cup {Malformed}

NoFile == [exists |-> FALSE, content |-> <<>>]
NoXml == [exists |-> FALSE, content |-> Malformed]
File(c) == [exists |-> TRUE, content |-> c]

\* utils.xml_to_dict.xml_file_to_dict: the flat mapping, or ParseError.
xml_file_to_dict(file) ==
    [raised |-> ~file.content.wellformed, data |-> file.content.map]

Stmt(name, kind) == [name |-> name, kind |-> kind]
Body(stmts, beh, src, arg) == [stmts |-> stmts, beh |-> beh, src |-> src, arg |-> arg]

\* What the text-generation service returns in the server runs: the
\* function the system prompt asks for, the same under the second candidate
\* name, or one that does not return within the timeout.
GeneratedBodies(tag) ==
    { Body(<<Stmt(Generate \o <<"_">> \o tag, "func")>>, "return", "const", <<"v">>),
      Body(<<Stmt(Generate \o tag, "func")>>, "return", "const", <<"v">>),
      Body(<<Stmt(Generate \o <<"_">> \o tag, "func")>>, "hang", "const", <<>>) }

\* The completion: an exception, or the text with or without a code fence.
Completions(tag) ==
    {[raised |-> TRUE, fence |-> "none", code |-> Body(<<>>, "return", "const", <<>>)]}
    \cup {[raised |-> FALSE, fence |-> "none", code |-> b] : b \in GeneratedBodies(tag)}
    \cup {[raised |-> FALSE, fence |-> "js", code |-> b] :
             b \in {g \in GeneratedBodies(tag) : g.beh = "hang"}}

\* Lines 147-153: the code between the first pair of fences, without the
\* language line.
CleanFences(completion) ==
    IF completion.fence = "none" THEN completion.code   \* no leading fence
    ELSE completion.code                                \* parts[1], language line dropped

ReqTags == {<<>>, TagDot, TagUnderscore}

Artifact(tag, code) == [tag |-> tag, body |-> code]

-----------------------------------------------------------------------------
(* Responses *)

Answer(status, success) ==
    [status |-> status, envelope |-> TRUE, success |-> success,
     html |-> <<>>, placeholders |-> <<>>]

\* An exception that leaves the handler: the framework answers 500 with a
\* plain-text body, not with an envelope.
Escaped ==
    [status |-> 500, envelope |-> FALSE, success |-> FALSE,
     html |-> <<>>, placeholders |-> <<>>]

NoRequest ==
    [handler |-> "none", json |-> TRUE, tag |-> <<>>, prompt |-> FALSE,
     limitOk |-> TRUE, hasHtml |-> FALSE, hasXml |-> FALSE,
     upstream |-> "notcalled", builtinOk |-> TRUE]

Request(handler, b) ==
    [NoRequest EXCEPT !.handler = handler, !.json = b.json, !.tag = b.tag,
                      !.prompt = b.prompt, !.limitOk = b.limitOk]

\* A request body: not JSON, or an object with the fields the handlers read
\* (tag <<>>: no tag; prompt FALSE: no prompt; limitOk FALSE: an
\* example_limit that int() rejects).
JsonBody(t, p, l) == [json |-> TRUE, tag |-> t, prompt |-> p, limitOk |-> l]

Bodies ==
    {[json |-> FALSE, tag |-> <<>>, prompt |-> FALSE, limitOk |-> TRUE]}
    \cup {JsonBody(t, TRUE, TRUE) : t \in ReqTags}
    \cup {JsonBody(TagDot, FALSE, TRUE), JsonBody(TagDot, TRUE, FALSE)}

-----------------------------------------------------------------------------
(* render_document, lines 245-261 *)

\* A variant that runs an existing rule even for a tag of the data mapping.
SubstitutionRuleFirst(tag, data, store, builtinOk) ==
    IF RuleFile(tag) \in DOMAIN store
    THEN LET r == run_js_rule(store[RuleFile(tag)], data, builtinOk)
         IN  IF r.raised
             THEN [tag |-> tag, kind |-> "error", value |-> RuleError(tag)]
             ELSE [tag |-> tag, kind |-> "rule", value |-> r.value]
    ELSE IF tag \in DOMAIN data
    THEN [tag |-> tag, kind |-> "static", value |-> data[tag]]
    ELSE [tag |-> tag, kind |-> "missing", value |-> MissingRule(tag)]

\* The value one placeholder is replaced by, and by which case.
Substitution(tag, data, store, builtinOk) ==
    IF tag \in DOMAIN data
    THEN [tag |-> tag, kind |-> "static", value |-> data[tag]]
    ELSE IF RuleFile(tag) \notin DOMAIN store
    THEN [tag |-> tag, kind |-> "missing", value |-> MissingRule(tag)]
    ELSE LET r == run_js_rule(store[RuleFile(tag)], data, builtinOk)
         IN  IF r.raised
             THEN [tag |-> tag, kind |-> "error", value |-> RuleError(tag)]
             ELSE [tag |-> tag, kind |-> "rule", value |-> r.value]

\* A variant of the loop that stops at the first rule that fails.
RECURSIVE RenderLoopAbort(_, _, _, _, _, _)
RenderLoopAbort(filled, ps, i, data, store, builtinOk) ==
    IF i > Len(ps) THEN filled
    ELSE IF Substitution(ps[i], data, store, builtinOk).kind = "error" THEN filled
    ELSE RenderLoopAbort(
            Replace(filled, Placeholder(ps[i]),
                    Substitution(ps[i], data, store, builtinOk).value),
            ps, i + 1, data, store, builtinOk)

\* The loop over ps from position i on, applied to filled.
RECURSIVE RenderLoop(_, _, _, _, _, _)
RenderLoop(filled, ps, i, data, store, builtinOk) ==
    IF i > Len(ps) THEN filled
    ELSE RenderLoop(
            Replace(filled, Placeholder(ps[i]),
                    Substitution(ps[i], data, store, builtinOk).value),
            ps, i + 1, data, store, builtinOk)

SubstitutionLog(ps, data, store, builtinOk) ==
    [i \in 1..Len(ps) |-> Substitution(ps[i], data, store, builtinOk)]

-----------------------------------------------------------------------------
(* The request handlers, one request at a time *)

\* The directories are created if absent (exist_ok): rule files of an
\* earlier run may be there when the service starts.
Init ==
    /\ htmlFile = NoFile
    /\ xmlFile = NoXml
    /\ rules \in {EmptyMap,
                  RuleFile(TagUnderscore) :> Artifact(TagUnderscore,
                      Body(<<Stmt(Generate \o <<"_">> \o TagUnderscore, "func")>>,
                           "return", "const", <<"v">>))}
    /\ client \in BOOLEAN
    /\ req = NoRequest
    /\ resp = Answer(200, TRUE)
    /\ log = <<>>
    /\ ups = <<>>
    /\ pure = <<>>

Others == <<ups, pure>>

\* upload_files, lines 51-69
UploadFiles ==
    \E hasHtml \in BOOLEAN, hasXml \in BOOLEAN, h \in Templates, x \in XmlDocs :
        /\ htmlFile = NoFile      \* the model follows one document pair
        /\ req' = [NoRequest EXCEPT !.handler = "upload",
                                    !.hasHtml = hasHtml, !.hasXml = hasXml]
        /\ IF ~hasHtml \/ ~hasXml
           THEN /\ resp' = Answer(400, FALSE)
                /\ UNCHANGED <<htmlFile, xmlFile>>
           ELSE /\ htmlFile' = File(h)
                /\ xmlFile' = File(x)
                /\ resp' = Answer(200, TRUE)
        /\ UNCHANGED <<rules, client, log, Others>>

\* get_tags, lines 72-92
GetTags ==
    /\ req' = [NoRequest EXCEPT !.handler = "tags"]
    /\ IF ~htmlFile.exists \/ ~xmlFile.exists
       THEN resp' = Answer(400, FALSE)
       ELSE LET placeholders == extract_placeholders(htmlFile.content)
                xml == xml_file_to_dict(xmlFile)
            IN  IF xml.raised THEN resp' = Escaped
                ELSE resp' = [Answer(200, TRUE) EXCEPT !.placeholders =
                        [i \in 1..Len(placeholders) |->
                            [tag |-> placeholders[i],
                             type |-> IF placeholders[i] \in DOMAIN xml.data
                                      THEN "static" ELSE "dynamic",
                             rule_exists |-> RuleFile(placeholders[i]) \in DOMAIN rules]]]
    /\ UNCHANGED <<htmlFile, xmlFile, rules, client, log, Others>>

\* generate_rule reaches the external call (line 135)
CallsUpstream(b) ==
    /\ client /\ b.json /\ b.limitOk /\ b.tag # <<>> /\ b.prompt
    /\ xmlFile.exists /\ ~xml_file_to_dict(xmlFile).raised

\* The answer of generate_rule, lines 96-111 and 208-211
GenerateAnswer(b, completion) ==
    IF ~client THEN Answer(500, FALSE)
    ELSE IF ~b.json \/ ~b.limitOk THEN Escaped
    ELSE IF b.tag = <<>> \/ ~b.prompt THEN Answer(400, FALSE)
    ELSE IF ~xmlFile.exists THEN Answer(400, FALSE)
    ELSE IF xml_file_to_dict(xmlFile).raised THEN Escaped
    ELSE IF completion.raised THEN Answer(500, FALSE)
    ELSE Answer(200, TRUE)

\* A variant that creates the rule file before the external call.
RulesAfterGenerateEarly(b, completion) ==
    IF ~CallsUpstream(b) THEN rules
    ELSE (RuleFile(b.tag) :> Artifact(b.tag, CleanFences(completion))) @@ rules

\* The rule store after generate_rule, lines 156-207
RulesAfterGenerate(b, completion) ==
    IF CallsUpstream(b) /\ ~completion.raised
    THEN (RuleFile(b.tag) :> Artifact(b.tag, CleanFences(completion))) @@ rules
    ELSE rules

\* generate_rule, lines 95-211
GenerateRule ==
    \E b \in Bodies : \E completion \in Completions(b.tag) :
        /\ req' = [Request("generate", b) EXCEPT !.upstream =
                      IF ~CallsUpstream(b) THEN "notcalled"
                      ELSE IF completion.raised THEN "raised" ELSE "returned"]
        /\ resp' = GenerateAnswer(b, completion)
        /\ rules' = RulesAfterGenerate(b, completion)
        /\ UNCHANGED <<htmlFile, xmlFile, client, log, Others>>

\* A variant that looks for the data file before the rule file.
TestAnswerDataFirst(b, builtinOk) ==
    IF ~b.json THEN Escaped
    ELSE IF b.tag = <<>> THEN Answer(400, FALSE)
    ELSE IF ~xmlFile.exists THEN Answer(400, FALSE)
    ELSE IF RuleFile(b.tag) \notin DOMAIN rules THEN Answer(404, FALSE)
    ELSE IF xml_file_to_dict(xmlFile).raised THEN Escaped
    ELSE LET out == run_js_rule(rules[RuleFile(b.tag)],
                                xml_file_to_dict(xmlFile).data, builtinOk)
         IN  IF out.raised THEN Answer(500, FALSE)
             ELSE [Answer(200, TRUE) EXCEPT !.html = out.value]

\* The answer of test_rule, lines 215-232 (html carries the value)
TestAnswer(b, builtinOk) ==
    IF ~b.json THEN Escaped
    ELSE IF b.tag = <<>> THEN Answer(400, FALSE)
    ELSE IF RuleFile(b.tag) \notin DOMAIN rules THEN Answer(404, FALSE)
    ELSE IF ~xmlFile.exists THEN Answer(400, FALSE)
    ELSE IF xml_file_to_dict(xmlFile).raised THEN Escaped
    ELSE LET out == run_js_rule(rules[RuleFile(b.tag)],
                                xml_file_to_dict(xmlFile).data, builtinOk)
         IN  IF out.raised THEN Answer(500, FALSE)
             ELSE [Answer(200, TRUE) EXCEPT !.html = out.value]

\* test_rule, lines 214-232
TestRule ==
    \E b \in Bodies, builtinOk \in BOOLEAN :
        /\ req' = [Request("test", b) EXCEPT !.builtinOk = builtinOk]
        /\ resp' = TestAnswer(b, builtinOk)
        /\ UNCHANGED <<htmlFile, xmlFile, rules, client, log, Others>>

\* render_document, lines 235-263
RenderDocument ==
    \E builtinOk \in BOOLEAN :
        /\ req' = [NoRequest EXCEPT !.handler = "render", !.builtinOk = builtinOk]
        /\ IF ~htmlFile.exists \/ ~xmlFile.exists
           THEN resp' = Answer(400, FALSE) /\ log' = <<>>
           ELSE IF xml_file_to_dict(xmlFile).raised
           THEN resp' = Escaped /\ log' = <<>>
           ELSE LET html == htmlFile.content
                    xml_data == xml_file_to_dict(xmlFile).data
                    placeholders == extract_placeholders(html)
                IN  /\ resp' = [Answer(200, TRUE) EXCEPT !.html =
                           RenderLoop(html, placeholders, 1, xml_data, rules, builtinOk)]
                    /\ log' = SubstitutionLog(placeholders, xml_data, rules, builtinOk)
        /\ UNCHANGED <<htmlFile, xmlFile, rules, client, Others>>

Next == UploadFiles \/ GetTags \/ GenerateRule \/ TestRule \/ RenderDocument

Spec == Init /\ [][Next]_vars


-----------------------------------------------------------------------------
(* Properties of the request handlers (specification Spec) *)

Rendered == req.handler = "render" /\ resp.envelope /\ resp.success

SourcePlaceholders == extract_placeholders(htmlFile.content)

CurrentData == xmlFile.content.map

\* The replacements of a substitution log applied one after the other.
RECURSIVE ApplyLog(_, _, _)
ApplyLog(text, entries, i) ==
    IF i > Len(entries) THEN text
    ELSE ApplyLog(Replace(text, Placeholder(entries[i].tag), entries[i].value),
                  entries, i + 1)

\* C1: the HTML of a successful render contains no delimiter of a placeholder
\* extracted from the source HTML, whatever the substituted values are.
C1_NoDelimiterRemains ==
    Rendered =>
        \A t \in Range(SourcePlaceholders) : ~Contains(resp.html, Placeholder(t))

\* C2: each extracted placeholder is resolved by exactly one case, in this
\* order: a key of the data mapping gets its literal value, also when a rule
\* file exists; otherwise an existing rule file gets the executor's result;
\* otherwise the placeholder gets [MISSING_RULE:<tag>] and the render still
\* succeeds.  The example of the specification renders as stated.
C2_PriorityOrder ==
    Rendered =>
        /\ Len(log) = Len(SourcePlaceholders)
        /\ \A i \in 1..Len(log) :
              LET t == SourcePlaceholders[i]
              IN  /\ log[i].tag = t
                  /\ t \in DOMAIN CurrentData =>
                        log[i].kind = "static" /\ log[i].value = CurrentData[t]
                  /\ (t \notin DOMAIN CurrentData /\ RuleFile(t) \in DOMAIN rules) =>
                        LET r == run_js_rule(rules[RuleFile(t)], CurrentData,
                                             req.builtinOk)
                        IN  \/ log[i].kind = "rule" /\ ~r.raised /\ log[i].value = r.value
                            \/ log[i].kind = "error" /\ r.raised
                  /\ (t \notin DOMAIN CurrentData /\ RuleFile(t) \notin DOMAIN rules) =>
                        log[i].kind = "missing" /\ log[i].value = MissingRule(t)
        /\ resp.html = ApplyLog(htmlFile.content, log, 1)
        /\ resp.status = 200
        /\ (htmlFile.content = ExampleHtml /\ CurrentData = ExampleData) =>
              resp.html = ExampleOutput

\* A render in which a tag of the data mapping also has a rule file.
C2_Witness ==
    /\ Rendered
    /\ \E i \in 1..Len(log) :
          /\ log[i].kind = "static"
          /\ RuleFile(log[i].tag) \in DOMAIN rules
    /\ \E i \in 1..Len(log) : log[i].kind = "missing"

\* C3: when the rule of one tag fails, its delimiter is replaced by
\* [RULE_ERROR:<tag>], every other extracted placeholder, before and after
\* it, still receives its own substitution, and the answer is a success.
C3_RuleFailureContained ==
    (req.handler = "render" /\ \E i \in 1..Len(log) : log[i].kind = "error") =>
        /\ resp.envelope /\ resp.success /\ resp.status = 200
        /\ Len(log) = Len(SourcePlaceholders)
        /\ \A i \in 1..Len(log) :
              /\ log[i].tag = SourcePlaceholders[i]
              /\ log[i].kind = "error" => log[i].value = RuleError(log[i].tag)
              /\ log[i].kind = "static" => log[i].value = CurrentData[log[i].tag]
              /\ log[i].kind = "missing" => log[i].value = MissingRule(log[i].tag)
        /\ resp.html = ApplyLog(htmlFile.content, log, 1)

\* A render in which the first placeholder's rule fails and a later
\* placeholder is substituted.
C3_Witness ==
    /\ req.handler = "render"
    /\ Len(log) >= 2
    /\ log[1].kind = "error"
    /\ log[2].kind \in {"static", "missing"}
    /\ Contains(resp.html, RuleError(log[1].tag))
    /\ ~Contains(resp.html, Placeholder(log[2].tag))

\* C4: a generate_rule request that fails because the client is not
\* configured or because the external call raises answers with a failure
\* envelope and leaves the rule store as it was.
C4_FailedGenerateKeepsStore ==
    [][(req'.handler = "generate" /\ (~client \/ req'.upstream = "raised")) =>
          /\ resp' = Answer(500, FALSE)
          /\ rules' = rules]_vars

\* The external call raised while a rule file for the tag existed.
C4_Witness ==
    /\ req.handler = "generate"
    /\ req.upstream = "raised"
    /\ ~resp.success
    /\ RuleFile(req.tag) \in DOMAIN rules

\* C5: no handler lets an exception escape; every failure is answered with
\* a JSON error envelope.
C5_NoEscape == resp.envelope

\* C6: a tag with a character outside [0-9A-Za-z_] and a different tag made
\* of safe characters only never share a rule file.
C6_NoCollision ==
    (req.handler \in {"generate", "test"} /\ req.json /\ ~IsSafe(req.tag)) =>
        \A safeTag \in {TagA, TagUnderscore, TagName, TagSalary} :
            RuleFile(req.tag) # RuleFile(safeTag)

\* The request lacks a required field, or the uploaded files it needs.
MissingInput ==
    \/ req.handler = "upload" /\ (~req.hasHtml \/ ~req.hasXml)
    \/ req.handler \in {"tags", "render"} /\ (~htmlFile.exists \/ ~xmlFile.exists)
    \/ req.handler = "generate" /\ req.json
          /\ (req.tag = <<>> \/ ~req.prompt \/ ~xmlFile.exists)
    \/ req.handler = "test" /\ req.json /\ (req.tag = <<>> \/ ~xmlFile.exists)

\* C7 as stated: a request with a missing field or missing uploaded files is
\* always answered 400, whatever the rest of the server state is.
C7_Always400 == MissingInput => resp.status = 400

\* C7 as amended, for requests whose body is a JSON object: upload_files,
\* get_tags and render_document answer 400; generate_rule answers 400 when
\* the client is configured and example_limit converts, 500 when the client
\* is not configured, and raises on an example_limit that does not convert;
\* test_rule answers 400 without tag, and without the data file it answers
\* 400 when the rule file exists and 404 when it does not.
C7_Amended ==
    /\ (req.handler = "upload" /\ (~req.hasHtml \/ ~req.hasXml)) =>
          resp = Answer(400, FALSE)
    /\ (req.handler \in {"tags", "render"} /\ (~htmlFile.exists \/ ~xmlFile.exists)) =>
          resp = Answer(400, FALSE)
    /\ (req.handler = "generate" /\ req.json
          /\ (req.tag = <<>> \/ ~req.prompt \/ ~xmlFile.exists)) =>
          /\ (client /\ req.limitOk) => resp = Answer(400, FALSE)
          /\ ~client => resp = Answer(500, FALSE)
          /\ (client /\ ~req.limitOk) => resp = Escaped
    /\ (req.handler = "test" /\ req.json /\ req.tag = <<>>) =>
          resp = Answer(400, FALSE)
    /\ (req.handler = "test" /\ req.json /\ req.tag # <<>> /\ ~xmlFile.exists) =>
          /\ RuleFile(req.tag) \in DOMAIN rules => resp = Answer(400, FALSE)
          /\ RuleFile(req.tag) \notin DOMAIN rules => resp = Answer(404, FALSE)

\* test_rule for a tag without a rule file and without the data file.
C7_Witness ==
    /\ req.handler = "test" /\ req.json /\ req.tag # <<>>
    /\ ~xmlFile.exists
    /\ RuleFile(req.tag) \notin DOMAIN rules
    /\ resp.status = 404


-----------------------------------------------------------------------------
(* Concurrent requests (specification SpecConc): upload_files runs up to   *)
(* each await and can be resumed after any other request; get_tags and     *)
(* render_document have no await between their reads.                      *)

Uploads == 1..MaxUploads

RECURSIVE Repeat(_, _)
Repeat(c, n) == IF n = 0 THEN <<>> ELSE <<c>> \o Repeat(c, n - 1)

\* The files sent by upload u: each upload sends its own pair.
HtmlOf(u) == Placeholder(TagA) \o Repeat("x", u)
XmlOf(u) == [wellformed |-> TRUE, map |-> TagA :> Repeat("y", u)]

\* A variant that opens the file without truncating it.
OpenKeep(file, empty) == IF file.exists THEN file ELSE File(empty)

\* open(path, "wb"), lines 63 and 66: the file exists and is empty.
OpenWb(file, empty) == File(empty)

InitConc ==
    /\ htmlFile = NoFile
    /\ xmlFile = NoXml
    /\ rules = EmptyMap
    /\ client = TRUE
    /\ req = NoRequest
    /\ resp = Answer(200, TRUE)
    /\ log = <<>>
    /\ ups = [u \in Uploads |-> "start"]
    /\ pure = <<>>

\* Lines 52-64: the form is read, the HTML file is opened, and the handler
\* waits for html_file.read().
UploadOpenHtml(u) ==
    /\ ups[u] = "start"
    /\ \E hasHtml \in BOOLEAN, hasXml \in BOOLEAN :
          IF ~hasHtml \/ ~hasXml
          THEN /\ ups' = [ups EXCEPT ![u] = "done"]
               /\ req' = [NoRequest EXCEPT !.handler = "upload",
                                           !.hasHtml = hasHtml, !.hasXml = hasXml]
               /\ resp' = Answer(400, FALSE)
               /\ UNCHANGED <<htmlFile, xmlFile>>
          ELSE /\ ups' = [ups EXCEPT ![u] = "html_open"]
               /\ htmlFile' = OpenWb(htmlFile, <<>>)
               /\ UNCHANGED <<xmlFile, req, resp>>
    /\ UNCHANGED <<rules, client, log, pure>>

\* Lines 64-67: the HTML is written, the data file is opened, and the
\* handler waits for xml_file.read().
UploadWriteHtml(u) ==
    /\ ups[u] = "html_open"
    /\ ups' = [ups EXCEPT ![u] = "xml_open"]
    /\ htmlFile' = File(HtmlOf(u))
    /\ xmlFile' = OpenWb(xmlFile, Malformed)
    /\ UNCHANGED <<rules, client, req, resp, log, pure>>

\* Lines 67-69: the data file is written and the request is answered.
UploadWriteXml(u) ==
    /\ ups[u] = "xml_open"
    /\ ups' = [ups EXCEPT ![u] = "done"]
    /\ xmlFile' = File(XmlOf(u))
    /\ req' = [NoRequest EXCEPT !.handler = "upload",
                                !.hasHtml = TRUE, !.hasXml = TRUE]
    /\ resp' = Answer(200, TRUE)
    /\ UNCHANGED <<htmlFile, rules, client, log, pure>>

NextConc ==
    \/ \E u \in Uploads : UploadOpenHtml(u)
    \/ \E u \in Uploads : UploadWriteHtml(u)
    \/ \E u \in Uploads : UploadWriteXml(u)
    \/ GetTags
    \/ RenderDocument

SpecConc == InitConc /\ [][NextConc]_vars

\* The pair on disk is the pair of one upload.
ConsistentPair ==
    \E u \in Uploads : htmlFile = File(HtmlOf(u)) /\ xmlFile = File(XmlOf(u))

\* C8: upload_files writes the two files in separate steps, each file empty
\* between its opening and its writing, and nothing keeps another request
\* from running in between: whenever an upload waits, a reader and every
\* other upload can take its next step; so a reader, and the disk after all
\* uploads, can hold a pair that was never uploaded together.
C8_UnprotectedPair ==
    /\ [](\A u \in Uploads :
            ups[u] \in {"html_open", "xml_open"} =>
                /\ ENABLED RenderDocument
                /\ ENABLED GetTags
                /\ \A v \in Uploads \ {u} :
                      /\ ups[v] = "start" => ENABLED UploadOpenHtml(v)
                      /\ ups[v] = "html_open" => ENABLED UploadWriteHtml(v)
                      /\ ups[v] = "xml_open" => ENABLED UploadWriteXml(v))
    /\ [][\A u \in Uploads :
            /\ (ups[u] = "start" /\ ups'[u] = "html_open") =>
                  htmlFile' = File(<<>>) /\ xmlFile' = xmlFile
            /\ (ups[u] = "html_open" /\ ups'[u] = "xml_open") =>
                  htmlFile' = File(HtmlOf(u)) /\ xmlFile' = File(Malformed)
            /\ (ups[u] = "xml_open" /\ ups'[u] = "done") =>
                  htmlFile' = htmlFile /\ xmlFile' = File(XmlOf(u))]_vars

\* All uploads have finished, the files on disk come from different uploads,
\* and a render has answered from them.
C8_Witness ==
    /\ \A u \in Uploads : ups[u] = "done"
    /\ \E u, v \in Uploads :
          u # v /\ htmlFile = File(HtmlOf(u)) /\ xmlFile = File(XmlOf(v))
    /\ ~ConsistentPair
    /\ req.handler = "render" /\ resp.success


-----------------------------------------------------------------------------
(* The substitution loop under another order of the tags (SpecOrder) *)

Orders(q) ==
    {p \in [1..Len(q) -> Range(q)] : \A i, j \in 1..Len(q) : p[i] = p[j] => i = j}

Stores ==
    {EmptyMap,
     RuleFile(TagUnderscore) :> Artifact(TagUnderscore,
         Body(<<Stmt(Generate \o <<"_">> \o TagUnderscore, "func")>>,
              "return", "const", <<"v">>))}

InitOrder ==
    /\ htmlFile \in {File(h) : h \in Templates}
    /\ xmlFile \in {File([wellformed |-> TRUE, map |-> m]) : m \in DataMaps}
    /\ rules \in Stores
    /\ client = TRUE
    /\ req = NoRequest
    /\ resp = Answer(200, TRUE)
    /\ log = <<>>
    /\ ups = <<>>
    /\ pure = [done |-> FALSE, order |-> <<>>, html |-> <<>>]

\* The loop of lines 245-261 run over a permutation of the placeholders.
RenderPermuted ==
    /\ ~pure.done
    /\ req.handler = "render"
    /\ \E p \in Orders(SourcePlaceholders) :
          pure' = [done |-> TRUE, order |-> p,
                   html |-> RenderLoop(htmlFile.content, p, 1, CurrentData,
                                       rules, req.builtinOk)]
    /\ UNCHANGED <<htmlFile, xmlFile, rules, client, req, resp, log, ups>>

NextOrder == (RenderDocument /\ req.handler = "none") \/ RenderPermuted

SpecOrder == InitOrder /\ [][NextOrder]_vars

\* C9: processing the extracted placeholders in any permutation yields the
\* same final HTML, also when a substituted value contains the delimiter of
\* another placeholder.
C9_OrderIndependent ==
    (pure.done /\ Rendered) => pure.html = resp.html

-----------------------------------------------------------------------------
(* The runner harness on generated bodies (SpecHarness) *)

HarnessTags == {TagA, TagUnderscore}

OtherName == <<"h", "e", "l", "p", "e", "r">>

NamesFor(tag) == Range(fnNames(tag, safe_tag_name(tag))) \cup {Generate, OtherName}

StmtsFor(tag) ==
    {Stmt(n, k) : n \in NamesFor(tag), k \in {"func", "gfunc", "value"}}

RECURSIVE StmtSeqs(_, _)
StmtSeqs(tag, n) ==
    IF n = 0 THEN {<<>>}
    ELSE StmtSeqs(tag, n - 1)
         \cup {Append(q, st) : q \in StmtSeqs(tag, n - 1), st \in StmtsFor(tag)}

InitHarness ==
    /\ htmlFile = NoFile
    /\ xmlFile = NoXml
    /\ rules = EmptyMap
    /\ client = TRUE
    /\ req = NoRequest
    /\ resp = Answer(200, TRUE)
    /\ log = <<>>
    /\ ups = <<>>
    /\ \E tag \in HarnessTags : \E stmts \in StmtSeqs(tag, MaxStmts) :
       \E beh \in {"return", "throw"} :
          pure = [done |-> FALSE,
                  artifact |-> Artifact(tag, Body(stmts, beh, "const", <<"v">>)),
                  process |-> [exit |-> 0, hang |-> FALSE, out |-> <<>>, fn |-> <<>>]]

\* node rule_<safe>.js
RunArtifact ==
    /\ ~pure.done
    /\ \E builtinOk \in BOOLEAN :
          pure' = [pure EXCEPT !.done = TRUE,
                               !.process = HarnessRun(pure.artifact, EmptyMap, builtinOk)]
    /\ UNCHANGED <<htmlFile, xmlFile, rules, client, req, resp, log, ups>>

NextHarness == RunArtifact

SpecHarness == InitHarness /\ [][NextHarness]_vars

\* The candidate names that the body binds to a function, in harness order.
DefinedCandidates(artifact) ==
    SelectSeq(fnNames(artifact.tag, safe_tag_name(artifact.tag)),
              LAMBDA n : Lookup(artifact.body, n) \in {"func", "gfunc"})

DefinesFunction(artifact) ==
    \E k \in 1..Len(artifact.body.stmts) :
        LET st == artifact.body.stmts[k]
        IN  st.kind \in {"func", "gfunc"} /\ Lookup(artifact.body, st.name) = st.kind

\* C10: the harness takes the first candidate name that names a function;
\* when no candidate does, it falls back instead of failing; it exits with
\* code 2 only when no function at all is found.  So an artifact whose body
\* defines a function under any candidate name runs successfully.
C10_CandidateResolution ==
    pure.done =>
        LET a == pure.artifact
            cands == DefinedCandidates(a)
        IN  /\ (cands # <<>> /\ a.body.beh = "return") =>
                  /\ pure.process.exit = 0
                  /\ pure.process.fn = cands[1]
                  /\ Strip(pure.process.out) = <<"v">>
            /\ (cands = <<>> /\ a.body.beh = "return") => pure.process.exit # 3
            /\ pure.process.exit = 2 => ~DefinesFunction(a)

=============================================================================
